---- MODULE Spec2Model ----
(***************************************************************************)
(* Model of the LINE secretary bot (src/app.py): the three webhook        *)
(* handlers handle_message, handle_audio_message and handle_image_message, *)
(* one inbound event per behaviour.  Every external call (chat reply,     *)
(* content download, storage upload, model, scraper, web fetch, image      *)
(* generation, store create) is one step whose outcome is chosen by the   *)
(* environment; an exception is routed by the try/except structure of the *)
(* handler that encloses the step.                                         *)
(*                                                                         *)
(* Texts are sequences of one-character strings.                           *)
(***************************************************************************)
EXTENDS Integers, Sequences, FiniteSets, TLC

(***************************************************************************)
(* Bounds of the model.                                                    *)
(***************************************************************************)
\* an inbound text is a concatenation of at most MaxSegs segments
MaxSegs == 3
\* the longest exception message (or error body) the environment produces
MaxErrLen == 260

(***************************************************************************)
(* Program constants.                                                      *)
(***************************************************************************)
ALLOWED_LINE_USER_IDS == {"Uca76be212cf92a65ad706eac60503cc2"}
UNAUTHORIZED_MESSAGE == "denied"
\* str(gen_error)[:150] in the degraded image reply
GenErrorPreview == 150
\* error_msg[:200] in the Imagen and Apify status errors
ErrorBodyPreview == 200
\* len("Imagen 4.0 生成失敗：") + len("500") + len(" - ")
ImagenErrPrefix == 22
\* len("Apify 爬取失敗：") + len("500") + len(" - ")
ApifyErrPrefix == 17
\* two of the twenty ART_STYLES
ART_STYLES == {"Impressionist painting style", "Japanese anime style"}

Min(a, b) == IF a <= b THEN a ELSE b

(***************************************************************************)
(* Texts.                                                                  *)
(***************************************************************************)
None == <<>>
HTTP == <<"h", "t", "t", "p", ":", "/", "/">>
HTTPS == <<"h", "t", "t", "p", "s", ":", "/", "/">>
CmdPrefix == <<"/", "a", " ">>
\* the characters the URL pattern excludes: whitespace and the brackets, quote,
\* bar, backslash, caret and backquote (the backquote is written BACKQUOTE: it
\* cannot appear in a string of this language, and no text of the model has it)
UrlStop ==
  {" ", "\t", "\n", "\r", "<", ">", "\"", "{", "}", "|", "\\", "^", "BACKQUOTE", "[", "]"}
WhiteSpace == {" ", "\t", "\n", "\r"}

Segments ==
  { CmdPrefix,
    <<"h", "i">>,
    <<" ">>,
    HTTP,
    HTTPS \o <<"x", ".", "i", "o">>,
    HTTPS \o <<"t", "h", "r", "e", "a", "d", "s", ".", "n", "e", "t">>,
    <<"F", "B", ".", "c", "o", "m">>,
    <<"/", "?", "u", "=">> }

RECURSIVE Flatten(_)
Flatten(ss) == IF ss = <<>> THEN <<>> ELSE Head(ss) \o Flatten(Tail(ss))

Texts == { Flatten(ss) : ss \in UNION { [1..n -> Segments] : n \in 1..MaxSegs } }

StartsWithAt(s, i, p) ==
  /\ i + Len(p) - 1 <= Len(s)
  /\ SubSeq(s, i, i + Len(p) - 1) = p

Contains(s, p) == \E i \in 1..Len(s) : StartsWithAt(s, i, p)

\* str.lower() on the alphabet of the model
UpperCase == <<"A", "B", "C", "D", "E", "F", "G", "H", "I", "J", "K", "L", "M",
               "N", "O", "P", "Q", "R", "S", "T", "U", "V", "W", "X", "Y", "Z">>
LowerCase == <<"a", "b", "c", "d", "e", "f", "g", "h", "i", "j", "k", "l", "m",
               "n", "o", "p", "q", "r", "s", "t", "u", "v", "w", "x", "y", "z">>
LowerOf ==
  [u \in {UpperCase[i] : i \in 1..Len(UpperCase)} |->
     LowerCase[CHOOSE i \in 1..Len(UpperCase) : UpperCase[i] = u]]
LowerChar(c) == IF c \in DOMAIN LowerOf THEN LowerOf[c] ELSE c
Lower(s) == [i \in 1..Len(s) |-> LowerChar(s[i])]

\* str.strip()
RECURSIVE LStrip(_)
LStrip(s) == IF s # <<>> /\ Head(s) \in WhiteSpace THEN LStrip(Tail(s)) ELSE s
RECURSIVE RStrip(_)
RStrip(s) ==
  IF s # <<>> /\ s[Len(s)] \in WhiteSpace THEN RStrip(SubSeq(s, 1, Len(s) - 1)) ELSE s
Strip(s) == RStrip(LStrip(s))

\* length of the scheme https?:// matched at position i, 0 when none
SchemeLenAt(s, i) ==
  IF StartsWithAt(s, i, HTTPS) THEN Len(HTTPS)
  ELSE IF StartsWithAt(s, i, HTTP) THEN Len(HTTP)
  ELSE 0

\* the pattern of detect_url (https?:// and one or more URL characters)
\* matches at position i
UrlMatchAt(s, i) ==
  /\ SchemeLenAt(s, i) > 0
  /\ i + SchemeLenAt(s, i) <= Len(s)
  /\ s[i + SchemeLenAt(s, i)] \notin UrlStop

\* last index of the greedy run of URL characters that starts at j
RECURSIVE UrlRunEnd(_, _)
UrlRunEnd(s, j) ==
  IF j < Len(s) /\ s[j + 1] \notin UrlStop THEN UrlRunEnd(s, j + 1) ELSE j

UrlAt(s, i) == SubSeq(s, i, UrlRunEnd(s, i + SchemeLenAt(s, i)))

detect_url(text) ==
  LET M == {i \in 1..Len(text) : UrlMatchAt(text, i)} IN
  IF M # {} THEN UrlAt(text, CHOOSE i \in M : \A j \in M : i <= j)
  ELSE None

FACEBOOK_COM == <<"f", "a", "c", "e", "b", "o", "o", "k", ".", "c", "o", "m">>
FB_COM == <<"f", "b", ".", "c", "o", "m">>
FB_WATCH == <<"f", "b", ".", "w", "a", "t", "c", "h">>
THREADS_COM == <<"t", "h", "r", "e", "a", "d", "s", ".", "c", "o", "m">>
THREADS_NET == <<"t", "h", "r", "e", "a", "d", "s", ".", "n", "e", "t">>

detect_social_platform(url) ==
  LET url_lower == Lower(url) IN
  IF Contains(url_lower, FACEBOOK_COM) \/ Contains(url_lower, FB_COM)
       \/ Contains(url_lower, FB_WATCH)
  THEN "facebook"
  ELSE IF Contains(url_lower, THREADS_COM) \/ Contains(url_lower, THREADS_NET)
  THEN "threads"
  ELSE "none"


\* truncate_content(text, 30): collapse whitespace runs, cut with an ellipsis
PreviewLen == 30
\* " ".join(s.split()): the characters outside whitespace stay, and each
\* whitespace run that has a word on both sides becomes one space
SplitJoin(s) ==
  LET Words == {i \in 1..Len(s) : s[i] \notin WhiteSpace}
      Keep(i) == \/ i \in Words
                 \/ (i - 1) \in Words /\ \E j \in Words : j > i
      kept == SelectSeq([i \in 1..Len(s) |-> i], Keep)
  IN [k \in 1..Len(kept) |-> IF kept[k] \in Words THEN s[kept[k]] ELSE " "]
Ellipsis == <<".", ".", ".", ".", ".", ".">>
truncate_content(text, max_length) ==
  LET clean_text == SplitJoin(text) IN
  IF Len(clean_text) <= max_length THEN clean_text
  ELSE SubSeq(clean_text, 1, max_length) \o Ellipsis

(***************************************************************************)
(* State.                                                                  *)
(***************************************************************************)
VARIABLES
  pc,       \* position of the handler of the event
  event,    \* the inbound event: kind, user_id (sender), text
  loc,      \* local variables of the running handler
  exc,      \* the exception most recently raised (its message length)
  calls,    \* external calls made so far, in order, with their outcome
  replies,  \* reply calls made on the event's reply token, in order
  notes     \* pages created in the document store

vars == <<pc, event, loc, exc, calls, replies, notes>>

Kinds == {"text", "audio", "image"}
UserIds == ALLOWED_LINE_USER_IDS \cup {"Uother"}
ErrLens == {40, MaxErrLen}
NoExc == [len |-> 0]
Exceptions == [len : ErrLens]

\* the locals of fetch_webpage_content: the declared length (<<>> when the
\* header is absent), the number of bytes in content_bytes, the chunks read
\* (run of them in one step), the status, the lowered content type, the
\* charset declarations of the body, the detector's guess, the encoding, the
\* encoding of the first decode attempt, the phases passed and the error
NoFetch ==
  [ content_length |-> <<>>, content_bytes |-> 0, reads |-> 0, run |-> 0,
    status_code |-> 0, content_type |-> <<>>, meta |-> <<>>, detected |-> <<>>,
    encoding |-> <<>>, first_decode |-> <<>>, done |-> <<>>, error |-> "" ]

NoEvent == [kind |-> "none", user_id |-> "", text |-> <<>>]
NoLoc ==
  [ detected_url |-> None, social_platform |-> "", article_text |-> <<>>,
    title |-> "", content |-> <<>>, summary |-> "",
    raw_transcription |-> <<>>, transcribed_text |-> <<>>,
    image_url |-> "", prompt |-> "", selected_style |-> "", new_prompt |-> "",
    generated_image_url |-> "", reply |-> <<"NOREPLY">>, summary_prompt |-> "",
    fetch |-> NoFetch ]

Init ==
  /\ pc = "idle"
  /\ event = NoEvent
  /\ loc = NoLoc
  /\ exc = NoExc
  /\ calls = <<>>
  /\ replies = <<>>
  /\ notes = <<>>

(***************************************************************************)
(* Exception routing: the except clause that catches an exception raised   *)
(* at position p, "raised" when none does and it leaves the handler.       *)
(***************************************************************************)
UrlTry == {"fb_scrape", "fb_summarize", "fb_save", "fb_reply", "threads_reply",
           "web_fetch", "web_summarize", "web_save", "web_reply"}
ArticleTry == {"article_summary", "article_save", "article_reply"}
AudioTry == {"audio_download", "audio_transcribe", "audio_correct",
             "audio_summary", "audio_save", "audio_reply"}
ImageInnerTry == {"image_generate", "image_gen_upload", "image_save_full",
                  "image_reply_full"}
ImageOuterTry == {"image_download", "image_upload", "image_analyze",
                  "image_transform", "image_save_degraded", "image_reply_degraded"}

\* faulty variant of OnRaise: a failure of summarization is swallowed and the handler
\* goes on to save
OnRaiseSwallow(p) ==
  IF p \in {"web_summarize", "fb_summarize"} THEN
    (IF p = "web_summarize" THEN "web_save" ELSE "fb_save")
  ELSE IF p \in UrlTry THEN "url_error_reply"
  ELSE IF p \in ArticleTry THEN "text_error_reply"
  ELSE IF p \in AudioTry THEN "audio_error_reply"
  ELSE IF p \in ImageInnerTry THEN "image_save_degraded"
  ELSE IF p \in ImageOuterTry THEN "image_error_reply"
  ELSE "raised"

OnRaise(p) ==
  IF p \in UrlTry THEN "url_error_reply"
  ELSE IF p \in ArticleTry THEN "text_error_reply"
  ELSE IF p \in AudioTry THEN "audio_error_reply"
  ELSE IF p \in ImageInnerTry THEN "image_save_degraded"
  ELSE IF p \in ImageOuterTry THEN "image_error_reply"
  ELSE "raised"

Raise(e) ==
  /\ pc' = OnRaise(pc)
  /\ exc' = e

Call(op, arg, ok) == calls' = Append(calls, [op |-> op, arg |-> arg, ok |-> ok])

\* faulty variant of AfterReply: the return after the help reply is missing
AfterReplyNoReturn(p) == IF p = "help_reply" THEN "article_summary" ELSE "done"

\* where the handler goes after a reply call that succeeded: every reply is
\* followed by a return or by the end of the handler
AfterReply(p) == "done"

\* line_bot_api.reply_message_with_http_info: one reply call carrying the
\* messages; shown is the length of the part that carries a failure message
ReplyStep(kind, messages, shown) ==
  \E ok \in BOOLEAN :
    /\ Call("reply", <<kind>>, ok)
    /\ replies' = Append(replies,
                    [kind |-> kind, messages |-> messages, shown |-> shown, ok |-> ok])
    /\ IF ok THEN pc' = AfterReply(pc) /\ exc' = exc
       ELSE \E e \in Exceptions : Raise(e)
    /\ UNCHANGED <<event, loc, notes>>

\* a call that returns nothing the handler keeps
PlainStep(op, arg, next) ==
  \E ok \in BOOLEAN :
    /\ Call(op, arg, ok)
    /\ IF ok THEN pc' = next /\ exc' = exc
       ELSE \E e \in Exceptions : Raise(e)

\* faulty variant of CreateStep: a failure of the create is ignored and the
\* handler goes on to its reply
CreateStepIgnoreFailure(page, next) ==
  \E ok \in BOOLEAN :
    /\ Call("create", <<page.Type>>, ok)
    /\ notes' = IF ok THEN Append(notes, page) ELSE notes
    /\ pc' = next /\ exc' = exc
    /\ UNCHANGED <<event, loc, replies>>

\* notion_client.pages.create(**page_data)
CreateStep(page, next) ==
  \E ok \in BOOLEAN :
    /\ Call("create", <<page.Type>>, ok)
    /\ notes' = IF ok THEN Append(notes, page) ELSE notes
    /\ IF ok THEN pc' = next /\ exc' = exc
       ELSE \E e \in Exceptions : Raise(e)
    /\ UNCHANGED <<event, loc, replies>>

(***************************************************************************)
(* Pages.                                                                  *)
(***************************************************************************)
\* window of the chunk splitter, and the per-field limit of the store it is
\* chosen for ("chunks of 1900 characters (Notion limit is 2000)")
ChunkWidth == 1900
FieldLimit == 2000

\* faulty variant of Chunks: the windows are counted with a floor division, so
\* the last, shorter window is lost
ChunksFloor(s) ==
  [k \in 1..(Len(s) \div ChunkWidth) |->
     SubSeq(s, (k - 1) * ChunkWidth + 1, Min(k * ChunkWidth, Len(s)))]

\* [s[i:i+1900] for i in range(0, len(s), 1900)]
Chunks(s) ==
  [k \in 1..((Len(s) + ChunkWidth - 1) \div ChunkWidth) |->
     SubSeq(s, (k - 1) * ChunkWidth + 1, Min(k * ChunkWidth, Len(s)))]

\* the characters clean_text_for_notion removes: NUL and the control characters
\* below 32 other than newline, tab and carriage return, written by name
ControlChars == {"NUL", "BEL", "ESC"}

\* clean_text_for_notion(text)
clean_text_for_notion(text) == SelectSeq(text, LAMBDA c : c \notin ControlChars)

Page(type, name, content, summary, line_id, children, image, prompt) ==
  [ Type |-> type, Name |-> name, Content |-> content, Summary |-> summary,
    lineID |-> line_id, children |-> children, Image |-> image, Prompt |-> prompt ]

\* faulty variant of save_to_notion: the lineID property is never added
save_to_notion_no_line_id(title, content, summary, note_type, page_content, line_id) ==
  Page(note_type, title, content, summary, "", Chunks(page_content), <<>>, "")

save_to_notion(title, content, summary, note_type, page_content, line_id) ==
  Page(note_type, title, content, summary, line_id, Chunks(page_content), <<>>, "")

save_social_to_notion(title, summary, original_content, platform, line_id) ==
  Page(IF platform = "facebook" THEN "Facebook"
       ELSE IF platform = "threads" THEN "Threads" ELSE "social",
       title, <<>>, summary, line_id, Chunks(original_content), <<>>, "")

save_webpage_to_notion(title, summary, original_content, line_id) ==
  Page("webpage", title, <<>>, summary, line_id,
       Chunks(clean_text_for_notion(original_content)), <<>>, "")

\* faulty variant of save_image_to_notion: the original prompt is not stored
save_image_to_notion_no_prompt(title, prompt, image_url, line_id, generated_image_url, style_used, new_prompt) ==
  Page("image", title, <<style_used>>, new_prompt, line_id, <<>>,
       <<image_url>> \o (IF generated_image_url # "" THEN <<generated_image_url>>
                         ELSE <<>>),
       "")

save_image_to_notion(title, prompt, image_url, line_id, generated_image_url, style_used, new_prompt) ==
  Page("image", title, <<style_used>>, new_prompt, line_id, <<>>,
       <<image_url>> \o (IF generated_image_url # "" THEN <<generated_image_url>>
                         ELSE <<>>),
       prompt)


(***************************************************************************)
(* The webhook: callback hands the event to the handler of its kind.       *)
(***************************************************************************)
callback ==
  /\ pc = "idle"
  /\ \E kind \in Kinds, user_id \in UserIds :
     \E text \in (IF kind = "text" THEN Texts ELSE {<<>>}) :
       /\ event' = [kind |-> kind, user_id |-> user_id, text |-> text]
       /\ pc' = IF kind = "text" THEN "handle_message"
                ELSE IF kind = "audio" THEN "handle_audio_message"
                ELSE "handle_image_message"
  /\ UNCHANGED <<loc, exc, calls, replies, notes>>

\* faulty variant of Authorized: the allow-list check is missing
AuthorizedAll(user_id) == TRUE

Authorized(user_id) == user_id \in ALLOWED_LINE_USER_IDS

(***************************************************************************)
(* handle_message                                                          *)
(***************************************************************************)
\* faulty variant of UrlBranch: a Threads URL is handed to the scraper
UrlBranchScrapeThreads(social_platform) ==
  IF social_platform \in {"facebook", "threads"} THEN "fb_scrape" ELSE "web_fetch"

UrlBranch(social_platform) ==
  IF social_platform = "facebook" THEN "fb_scrape"
  ELSE IF social_platform = "threads" THEN "threads_reply"
  ELSE "web_fetch"

article_text_of(user_text) == Strip(SubSeq(user_text, 4, Len(user_text)))

\* faulty variant of TextBranch: the command prefix is tested before the URL
TextBranchPrefixFirst(user_text) ==
  IF StartsWithAt(user_text, 1, CmdPrefix) THEN
    (IF article_text_of(user_text) = <<>> THEN "need_article_reply"
     ELSE "article_summary")
  ELSE IF detect_url(user_text) # None
  THEN UrlBranch(detect_social_platform(detect_url(user_text)))
  ELSE "help_reply"

\* the branch an authorized text takes
TextBranch(user_text) ==
  IF detect_url(user_text) # None
  THEN UrlBranch(detect_social_platform(detect_url(user_text)))
  ELSE IF ~StartsWithAt(user_text, 1, CmdPrefix) THEN "help_reply"
  ELSE IF article_text_of(user_text) = <<>> THEN "need_article_reply"
  ELSE "article_summary"

handle_message ==
  /\ pc = "handle_message"
  /\ IF ~Authorized(event.user_id)
     THEN pc' = "unauthorized_reply" /\ loc' = loc
     ELSE /\ pc' = TextBranch(event.text)
          /\ loc' = IF detect_url(event.text) # None
                    THEN [loc EXCEPT
                            !.detected_url = detect_url(event.text),
                            !.social_platform =
                               detect_social_platform(detect_url(event.text))]
                    ELSE IF StartsWithAt(event.text, 1, CmdPrefix)
                    THEN [loc EXCEPT !.article_text = article_text_of(event.text)]
                    ELSE loc
  /\ UNCHANGED <<event, exc, calls, replies, notes>>

unauthorized_reply ==
  /\ pc = "unauthorized_reply"
  /\ ReplyStep(UNAUTHORIZED_MESSAGE, <<"text">>, 0)

help_reply ==
  /\ pc = "help_reply"
  /\ ReplyStep("help", <<"text">>, 0)

need_article_reply ==
  /\ pc = "need_article_reply"
  /\ ReplyStep("need_article", <<"text">>, 0)

threads_reply ==
  /\ pc = "threads_reply"
  /\ ReplyStep("threads_unsupported", <<"text">>, 0)

\* fetch_social_content_with_apify and the emptiness test that follows it
\* post.get("text") or post.get("message") or "": no text, a plain text, and
\* a text with a control character in it (the post is taken as it is scraped)
PostTexts == {<<>>, <<"post text">>, <<"post", "BEL", "text">>}

\* the text fetch_webpage_content returns: a plain text, and a text with a
\* control character in it (the decoded page passes the garbage test with up
\* to 50 of them, and neither the parser nor get_text removes them)
PageTexts == {<<"page text">>, <<"page", "BEL", "text">>}

fb_scrape ==
  /\ pc = "fb_scrape"
  /\ \/ \* the request raises, no API key, or an unusable response
        /\ Call("scrape", loc.detected_url, FALSE)
        /\ \E e \in Exceptions : Raise(e)
        /\ loc' = loc
     \/ \* status not in [200, 201]: the message carries error_msg[:200]
        /\ Call("scrape", loc.detected_url, FALSE)
        /\ \E body \in ErrLens :
             Raise([len |-> ApifyErrPrefix + Min(body, ErrorBodyPreview)])
        /\ loc' = loc
     \/ \* a post: text or message, and an optional link
        \E text \in PostTexts, link \in {<<>>, <<"post link">>} :
          LET content == text \o link IN
          /\ Call("scrape", loc.detected_url, TRUE)
          /\ loc' = [loc EXCEPT !.title = "author post", !.content = content]
          /\ IF content = <<>> THEN Raise([len |-> 14])
             ELSE pc' = "fb_summarize" /\ exc' = exc
  /\ UNCHANGED <<event, replies, notes>>

\* max_content_length of summarize_webpage
MaxContentLength == 10000

\* content[:max_content_length] + "..." when the content is longer
TruncateForSummary(content) ==
  IF Len(content) > MaxContentLength
  THEN SubSeq(content, 1, MaxContentLength) \o <<".", ".", ".">>
  ELSE content

\* faulty variant of is_chinese_text: a share of exactly 20% counts as Chinese
is_chinese_text_at_least(text) ==
  LET chinese_chars == Len(SelectSeq(text, LAMBDA c : c = "CJK"))
      total_chars == Len(SelectSeq(text, LAMBDA c : c \notin WhiteSpace))
  IN total_chars # 0 /\ 5 * chinese_chars >= total_chars

\* is_chinese_text: CJK is a character of U+4E00..U+9FFF.  The quotient
\* chinese_chars / total_chars is above the double 0.2 exactly when
\* 5 * chinese_chars > total_chars: the two are the same double when the
\* share is one fifth, and differ by far more than a rounding otherwise.
is_chinese_text(text) ==
  LET chinese_chars == Len(SelectSeq(text, LAMBDA c : c = "CJK"))
      total_chars == Len(SelectSeq(text, LAMBDA c : c \notin WhiteSpace))
  IN total_chars # 0 /\ 5 * chinese_chars > total_chars

\* the prompt summarize_webpage builds for a content
SummaryPrompt(content) ==
  IF is_chinese_text(TruncateForSummary(content)) THEN "summarize" ELSE "translate"

\* summarize_webpage(content)
SummarizeStep(next) ==
  \E ok \in BOOLEAN :
    /\ Call("summarize_webpage", loc.content, ok)
    /\ IF ok
       THEN /\ pc' = next /\ exc' = exc
            /\ loc' = [loc EXCEPT !.summary = "summary",
                                  !.summary_prompt = SummaryPrompt(loc.content)]
       ELSE /\ loc' = [loc EXCEPT !.summary_prompt = SummaryPrompt(loc.content)]
            /\ \E e \in Exceptions : Raise(e)
    /\ UNCHANGED <<event, replies, notes>>

fb_summarize ==
  /\ pc = "fb_summarize"
  /\ SummarizeStep("fb_save")

fb_save ==
  /\ pc = "fb_save"
  /\ CreateStep(save_social_to_notion(loc.title, loc.summary, loc.content,
                                      loc.social_platform, event.user_id),
                "fb_reply")

fb_reply ==
  /\ pc = "fb_reply"
  /\ ReplyStep("saved_facebook", <<"text">>, 0)

\* fetch_webpage_content, and title = webpage["title"] or the placeholder
web_fetch ==
  /\ pc = "web_fetch"
  /\ \/ /\ Call("fetch", loc.detected_url, FALSE)
        /\ \E e \in Exceptions : Raise(e)
        /\ loc' = loc
     \/ \E title \in {"", "page title"} :
          /\ Call("fetch", loc.detected_url, TRUE)
          /\ loc' = [loc EXCEPT !.title = IF title = "" THEN "untitled" ELSE title,
                                !.content = <<"page text">>]
          /\ pc' = "web_summarize"
          /\ exc' = exc
  /\ UNCHANGED <<event, replies, notes>>

web_summarize ==
  /\ pc = "web_summarize"
  /\ SummarizeStep("web_save")

web_save ==
  /\ pc = "web_save"
  /\ CreateStep(save_webpage_to_notion(loc.title, loc.summary, loc.content,
                                       event.user_id),
                "web_reply")

web_reply ==
  /\ pc = "web_reply"
  /\ ReplyStep("saved_webpage", <<"text">>, 0)

\* the part of a top-level error reply that carries the failure: str(e)
ErrorShown(e) == e.len

url_error_reply ==
  /\ pc = "url_error_reply"
  /\ ReplyStep("url_error", <<"text">>, ErrorShown(exc))

\* Replies of the model to a structured-output prompt, as sequences of
\* tokens: FENCE is the three backquotes, "json" the language tag after them,
\* OBJ_TS the object {"title": .., "summary": ..}, OBJ_PT the object
\* {"prompt": .., "title": ..}, OBJ_T an object with the title only, and
\* "junk" a text that is no JSON value.
JsonObjects == {"OBJ_TS", "OBJ_PT", "OBJ_T"}
JsonKeys(v) ==
  IF v = "OBJ_TS" THEN {"title", "summary"}
  ELSE IF v = "OBJ_PT" THEN {"prompt", "title"}
  ELSE IF v = "OBJ_T" THEN {"title"}
  ELSE {}

FencedReplies(obj) ==
  { <<obj>>,
    <<" ", obj, "\n">>,
    <<"FENCE", "json", "\n", obj, "\n", "FENCE">>,
    <<"FENCE", "json", "\n", obj>>,
    <<"FENCE", obj, "FENCE">> }

ModelReplies ==
  FencedReplies("OBJ_TS") \cup
  { <<"OBJ_PT">>, <<"FENCE", "json", "\n", "OBJ_PT", "\n", "FENCE">>,
    <<"OBJ_T">>, <<"junk">>,
    <<"FENCE", "json", "\n", "junk", "\n", "FENCE">>,
    <<"junk", "FENCE", "json", "\n", "OBJ_TS", "\n", "FENCE">> }

\* no reply: the request to the model raised
NoReply == <<"NOREPLY">>
StructuredReplies == ModelReplies \cup {NoReply}

\* result_text.split("\n", 1)[1] raises IndexError: a fence and no newline
FenceLineMissing(result_text) ==
  /\ result_text # <<>> /\ Head(result_text) = "FENCE"
  /\ \A i \in 1..Len(result_text) : result_text[i] # "\n"

\* faulty variant of StripFence: the fence is left in place
StripFenceNone(result_text) == result_text

\* if result_text.startswith(FENCE): drop the first line, then cut at the
\* last fence
StripFence(result_text) ==
  LET NL == {i \in 1..Len(result_text) : result_text[i] = "\n"}
      nl == CHOOSE i \in NL : \A j \in NL : i <= j
      rest == SubSeq(result_text, nl + 1, Len(result_text))
      F == {i \in 1..Len(rest) : rest[i] = "FENCE"}
      last == CHOOSE i \in F : \A j \in F : j <= i
  IN IF result_text = <<>> \/ Head(result_text) # "FENCE" THEN result_text
     ELSE IF F = {} THEN rest ELSE SubSeq(rest, 1, last - 1)

\* json.loads: the one JSON object of the text, whitespace around it allowed;
\* "invalid" when it raises
JsonLoads(text) ==
  LET words == SelectSeq(text, LAMBDA c : c \notin WhiteSpace) IN
  IF Len(words) = 1 /\ words[1] \in JsonObjects THEN words[1] ELSE "invalid"

\* the object a structured-output function returns for a reply, "invalid"
\* when it raises
StructuredParse(reply) ==
  IF FenceLineMissing(Strip(reply)) THEN "invalid"
  ELSE JsonLoads(StripFence(Strip(reply)))

\* a structured-output model call and the key lookups after it: "api_error"
\* when the request raises, "malformed" when json.loads or a key lookup
\* raises, "ok" when the handler got its structure
StructuredOutcome(reply, keys) ==
  IF reply = NoReply THEN "api_error"
  ELSE IF keys \subseteq JsonKeys(StructuredParse(reply)) THEN "ok"
  ELSE "malformed"

article_summary ==
  /\ pc = "article_summary"
  /\ \E reply \in StructuredReplies :
       LET out == StructuredOutcome(reply, {"title", "summary"}) IN
       /\ Call("cantonese_summary_and_title", loc.article_text, out = "ok")
       /\ IF out = "ok"
          THEN /\ loc' = [loc EXCEPT !.reply = reply, !.title = "title", !.summary = "summary",
                            !.content = truncate_content(loc.article_text, PreviewLen)]
               /\ pc' = "article_save"
               /\ exc' = exc
          ELSE loc' = [loc EXCEPT !.reply = reply] /\ \E e \in Exceptions : Raise(e)
  /\ UNCHANGED <<event, replies, notes>>

article_save ==
  /\ pc = "article_save"
  /\ CreateStep(save_to_notion(loc.title, loc.content, loc.summary, "text summary",
                               loc.article_text, event.user_id),
                "article_reply")

article_reply ==
  /\ pc = "article_reply"
  /\ ReplyStep("saved_text", <<"text">>, 0)

text_error_reply ==
  /\ pc = "text_error_reply"
  /\ ReplyStep("text_error", <<"text">>, ErrorShown(exc))


(***************************************************************************)
(* handle_audio_message                                                    *)
(***************************************************************************)
\* replies of the model to the transcription prompt and to the correction
\* prompt, as sequences of words; the handler strips them
Transcriptions == {<<"raw", "one">>, <<"raw", "two", "\n">>}
Corrections == {<<"corrected", "one">>, <<" ", "corrected", "two">>}

\* faulty variant of AudioNoteContent: the raw transcription is stored
AudioNoteContentRaw(l) == l.raw_transcription

\* the content argument of save_to_notion in the audio handler
AudioNoteContent(l) == l.transcribed_text

handle_audio_message ==
  /\ pc = "handle_audio_message"
  /\ pc' = IF ~Authorized(event.user_id) THEN "unauthorized_reply"
           ELSE "audio_download"
  /\ UNCHANGED <<event, loc, exc, calls, replies, notes>>

audio_download ==
  /\ pc = "audio_download"
  /\ PlainStep("download", <<"audio">>, "audio_transcribe")
  /\ UNCHANGED <<event, loc, replies, notes>>

audio_transcribe ==
  /\ pc = "audio_transcribe"
  /\ \E ok \in BOOLEAN, out \in Transcriptions :
       /\ Call("transcribe", <<"audio">>, ok)
       /\ IF ok
          THEN /\ loc' = [loc EXCEPT !.raw_transcription = Strip(out)]
               /\ pc' = "audio_correct"
               /\ exc' = exc
          ELSE loc' = loc /\ \E e \in Exceptions : Raise(e)
  /\ UNCHANGED <<event, replies, notes>>

audio_correct ==
  /\ pc = "audio_correct"
  /\ \E ok \in BOOLEAN, out \in Corrections :
       /\ Call("correct_cantonese_text", loc.raw_transcription, ok)
       /\ IF ok
          THEN /\ loc' = [loc EXCEPT !.transcribed_text = Strip(out)]
               /\ pc' = "audio_summary"
               /\ exc' = exc
          ELSE loc' = loc /\ \E e \in Exceptions : Raise(e)
  /\ UNCHANGED <<event, replies, notes>>

audio_summary ==
  /\ pc = "audio_summary"
  /\ \E reply \in StructuredReplies :
       LET out == StructuredOutcome(reply, {"title", "summary"}) IN
       /\ Call("summary_and_title", loc.transcribed_text, out = "ok")
       /\ IF out = "ok"
          THEN /\ loc' = [loc EXCEPT !.reply = reply, !.title = "title", !.summary = "summary"]
               /\ pc' = "audio_save"
               /\ exc' = exc
          ELSE loc' = [loc EXCEPT !.reply = reply] /\ \E e \in Exceptions : Raise(e)
  /\ UNCHANGED <<event, replies, notes>>

audio_save ==
  /\ pc = "audio_save"
  /\ CreateStep(save_to_notion(loc.title, AudioNoteContent(loc), loc.summary,
                               "voice", <<>>, event.user_id),
                "audio_reply")

audio_reply ==
  /\ pc = "audio_reply"
  /\ ReplyStep("saved_audio", <<"text">>, 0)

audio_error_reply ==
  /\ pc = "audio_error_reply"
  /\ ReplyStep("audio_error", <<"text">>, ErrorShown(exc))

(***************************************************************************)
(* handle_image_message                                                    *)
(***************************************************************************)
handle_image_message ==
  /\ pc = "handle_image_message"
  /\ pc' = IF ~Authorized(event.user_id) THEN "unauthorized_reply"
           ELSE "image_download"
  /\ UNCHANGED <<event, loc, exc, calls, replies, notes>>

image_download ==
  /\ pc = "image_download"
  /\ PlainStep("download", <<"image">>, "image_upload")
  /\ UNCHANGED <<event, loc, replies, notes>>

\* upload_to_google_drive(image_content, filename)
image_upload ==
  /\ pc = "image_upload"
  /\ \E ok \in BOOLEAN :
       /\ Call("upload", <<"original">>, ok)
       /\ IF ok
          THEN /\ loc' = [loc EXCEPT !.image_url = "original url"]
               /\ pc' = "image_analyze"
               /\ exc' = exc
          ELSE loc' = loc /\ \E e \in Exceptions : Raise(e)
  /\ UNCHANGED <<event, replies, notes>>

\* generate_image_prompt(image_base64)
image_analyze ==
  /\ pc = "image_analyze"
  /\ \E reply \in StructuredReplies :
       LET out == StructuredOutcome(reply, {"title", "prompt"}) IN
       /\ Call("image_prompt", <<"image">>, out = "ok")
       /\ IF out = "ok"
          THEN /\ loc' = [loc EXCEPT !.reply = reply, !.title = "title", !.prompt = "prompt"]
               /\ pc' = "image_transform"
               /\ exc' = exc
          ELSE loc' = [loc EXCEPT !.reply = reply] /\ \E e \in Exceptions : Raise(e)
  /\ UNCHANGED <<event, replies, notes>>


\* random.choice(ART_STYLES) and transform_prompt_with_style(prompt, style)
image_transform ==
  /\ pc = "image_transform"
  /\ \E selected_style \in ART_STYLES, ok \in BOOLEAN :
       /\ Call("transform_prompt", <<loc.prompt, selected_style>>, ok)
       /\ IF ok
          THEN /\ loc' = [loc EXCEPT !.selected_style = selected_style,
                                     !.new_prompt = "new prompt"]
               /\ pc' = "image_generate"
               /\ exc' = exc
          ELSE /\ loc' = [loc EXCEPT !.selected_style = selected_style]
               /\ \E e \in Exceptions : Raise(e)
  /\ UNCHANGED <<event, replies, notes>>

\* generate_new_image(new_prompt), up to the decoded image bytes
image_generate ==
  /\ pc = "image_generate"
  /\ \/ \* the request raises, or the response has no image
        /\ Call("imagen", <<loc.new_prompt>>, FALSE)
        /\ \E e \in Exceptions : Raise(e)
     \/ \* status not 200: the message carries error_msg[:200]
        /\ Call("imagen", <<loc.new_prompt>>, FALSE)
        /\ \E body \in ErrLens :
             Raise([len |-> ImagenErrPrefix + Min(body, ErrorBodyPreview)])
     \/ /\ Call("imagen", <<loc.new_prompt>>, TRUE)
        /\ pc' = "image_gen_upload"
        /\ exc' = exc
  /\ UNCHANGED <<event, loc, replies, notes>>

\* generate_new_image: upload_to_google_drive(image_bytes, filename)
image_gen_upload ==
  /\ pc = "image_gen_upload"
  /\ \E ok \in BOOLEAN :
       /\ Call("upload", <<"generated">>, ok)
       /\ IF ok
          THEN /\ loc' = [loc EXCEPT !.generated_image_url = "generated url"]
               /\ pc' = "image_save_full"
               /\ exc' = exc
          ELSE loc' = loc /\ \E e \in Exceptions : Raise(e)
  /\ UNCHANGED <<event, replies, notes>>

image_save_full ==
  /\ pc = "image_save_full"
  /\ CreateStep(save_image_to_notion(loc.title, loc.prompt, loc.image_url,
                                     event.user_id, loc.generated_image_url,
                                     loc.selected_style, loc.new_prompt),
                "image_reply_full")

image_reply_full ==
  /\ pc = "image_reply_full"
  /\ ReplyStep("image_full", <<"text", "image">>, 0)

\* the except clause of the inner try: save without the generated image
image_save_degraded ==
  /\ pc = "image_save_degraded"
  /\ CreateStep(save_image_to_notion(loc.title, loc.prompt, loc.image_url,
                                     event.user_id, "",
                                     loc.selected_style, loc.new_prompt),
                "image_reply_degraded")

\* the part of the degraded reply that carries the failure: str(gen_error)[:150]
DegradedShown(e) == Min(e.len, GenErrorPreview)

image_reply_degraded ==
  /\ pc = "image_reply_degraded"
  /\ ReplyStep("image_degraded", <<"text">>, DegradedShown(exc))

image_error_reply ==
  /\ pc = "image_error_reply"
  /\ ReplyStep("image_error", <<"text">>, ErrorShown(exc))

(***************************************************************************)
(* Specification.                                                          *)
(***************************************************************************)
Next ==
  \/ callback
  \/ handle_message
  \/ unauthorized_reply
  \/ help_reply
  \/ need_article_reply
  \/ threads_reply
  \/ fb_scrape
  \/ fb_summarize
  \/ fb_save
  \/ fb_reply
  \/ web_fetch
  \/ web_summarize
  \/ web_save
  \/ web_reply
  \/ url_error_reply
  \/ article_summary
  \/ article_save
  \/ article_reply
  \/ text_error_reply
  \/ handle_audio_message
  \/ audio_download
  \/ audio_transcribe
  \/ audio_correct
  \/ audio_summary
  \/ audio_save
  \/ audio_reply
  \/ audio_error_reply
  \/ handle_image_message
  \/ image_download
  \/ image_upload
  \/ image_analyze
  \/ image_transform
  \/ image_generate
  \/ image_gen_upload
  \/ image_save_full
  \/ image_reply_full
  \/ image_save_degraded
  \/ image_reply_degraded
  \/ image_error_reply

Spec == Init /\ [][Next]_vars


(***************************************************************************)
(* Vocabulary of the properties.                                           *)
(***************************************************************************)
Received == event.kind \in Kinds
Finished == pc \in {"done", "raised"}
Delivered == SelectSeq(replies, LAMBDA r : r.ok)
ErrorKinds == {"url_error", "text_error", "audio_error", "image_error"}
FailedAt(i) == ~calls[i].ok
NoReplyFailed == \A i \in 1..Len(replies) : replies[i].ok
\* the calls of generate_new_image: the image model and the upload of its image
IsRegenCall(c) ==
  \/ c.op = "imagen"
  \/ c.op = "upload" /\ c.arg = <<"generated">>
RegenFailed == \E i \in 1..Len(calls) : IsRegenCall(calls[i]) /\ FailedAt(i)

(***************************************************************************)
(* C1: for every inbound event and every combination of outcomes of the    *)
(* external calls, the handler creates at most one Note in the store; in   *)
(* particular the image handler never completes two successful creates.    *)
(* The code violates it: the success reply of the image handler is inside  *)
(* the inner try, so when that reply call raises after the page was        *)
(* created, the except clause creates the page a second time.              *)
(***************************************************************************)
C1_AtMostOneNote == Len(notes) <= 1

C3_UnauthorizedOnlyDenial ==
  Received /\ event.user_id \notin ALLOWED_LINE_USER_IDS =>
    /\ notes = <<>>
    /\ Len(calls) <= 1
    /\ \A i \in 1..Len(calls) :
         calls[i].op = "reply" /\ calls[i].arg = <<UNAUTHORIZED_MESSAGE>>
    /\ Finished => Len(calls) = 1

\* an image of a sender outside the allow-list was answered with the denial
C3_Witness ==
  /\ event.kind = "image"
  /\ event.user_id \notin ALLOWED_LINE_USER_IDS
  /\ pc = "done"
  /\ Len(replies) = 1
  /\ replies[1].kind = UNAUTHORIZED_MESSAGE


(***************************************************************************)
(* C4.  Vocabulary: the text of an authorized text event that went through *)
(* the branching of handle_message.                                        *)
(***************************************************************************)
Dispatched ==
  /\ event.kind = "text"
  /\ event.user_id \in ALLOWED_LINE_USER_IDS
  /\ pc \notin {"idle", "handle_message"}
HasUrl(text) == \E i \in 1..Len(text) : UrlMatchAt(text, i)
IsFirstUrl(text, u) ==
  \E i \in 1..Len(text) :
    /\ UrlMatchAt(text, i)
    /\ \A j \in 1..(i - 1) : ~UrlMatchAt(text, j)
    /\ u = UrlAt(text, i)
HasPrefix(text) == Len(text) >= 3 /\ text[1] = "/" /\ text[2] = "a" /\ text[3] = " "
Remainder(text) == SubSeq(text, 4, Len(text))
Blank(s) == \A i \in 1..Len(s) : s[i] \in WhiteSpace
UrlReplyKinds == {"saved_facebook", "saved_webpage", "threads_unsupported", "url_error"}

\* the URL branch: only the first URL is processed, nothing of the other
\* branches happens
C4_UrlCase ==
  /\ IsFirstUrl(event.text, loc.detected_url)
  /\ pc \in UrlTry \cup {"url_error_reply", "done", "raised"}
  /\ \A i \in 1..Len(calls) :
       /\ calls[i].op \in {"scrape", "fetch", "summarize_webpage", "create", "reply"}
       /\ calls[i].op \in {"scrape", "fetch"} => calls[i].arg = loc.detected_url
       /\ calls[i].op = "reply" => calls[i].arg[1] \in UrlReplyKinds

\* the article branch: the first call summarizes the remainder
C4_ArticleCase ==
  /\ pc \in ArticleTry \cup {"text_error_reply", "done", "raised"}
  /\ Len(calls) >= 1 =>
       /\ calls[1].op = "cantonese_summary_and_title"
       /\ calls[1].arg = Strip(Remainder(event.text))
  /\ Finished => Len(calls) >= 1

\* a reply of the given kind and nothing else: no extraction, model call or
\* store create
C4_OnlyReply(kind) ==
  /\ notes = <<>>
  /\ \A i \in 1..Len(calls) : calls[i].op = "reply" /\ calls[i].arg = <<kind>>
  /\ Finished => Len(calls) = 1

(***************************************************************************)
(* C4, as stated: URL anywhere -> URL branch on the first URL (also with   *)
(* the prefix); else prefix "/a " -> the remainder is summarized as an     *)
(* article; else the help echo and nothing else.                           *)
(***************************************************************************)
C4_BranchOrderAsStated ==
  Dispatched =>
    IF HasUrl(event.text) THEN C4_UrlCase
    ELSE IF HasPrefix(event.text) THEN C4_ArticleCase
    ELSE C4_OnlyReply("help")

(***************************************************************************)
(* C4, amended: URL anywhere -> URL branch on the first URL (also with the *)
(* prefix); else prefix "/a " with a remainder that is not blank -> the    *)
(* stripped remainder is summarized as an article; else prefix "/a " with  *)
(* a blank remainder -> the reply asks for the article and nothing else    *)
(* happens; else the help echo and nothing else.                           *)
(***************************************************************************)
C4_BranchOrder ==
  Dispatched =>
    IF HasUrl(event.text) THEN C4_UrlCase
    ELSE IF HasPrefix(event.text) /\ ~Blank(Remainder(event.text)) THEN C4_ArticleCase
    ELSE IF HasPrefix(event.text) THEN C4_OnlyReply("need_article")
    ELSE C4_OnlyReply("help")

\* a text that starts with the prefix and holds two URLs was handled on the
\* URL branch and saved
C4_Witness ==
  /\ Dispatched
  /\ HasPrefix(event.text)
  /\ \E i, j \in 1..Len(event.text) :
       i < j /\ UrlMatchAt(event.text, i) /\ UrlMatchAt(event.text, j)
  /\ pc = "done"
  /\ Len(notes) = 1

(***************************************************************************)
(* C5: when the image-regeneration step fails and every other external     *)
(* call succeeds, the Note of the image is persisted exactly once with its *)
(* primary fields (title, original prompt, original image reference,       *)
(* sender id) and no generated-image reference, and the handler does not   *)
(* end in the top-level error reply.                                       *)
(***************************************************************************)
OnlyRegenFailed ==
  /\ RegenFailed
  /\ \A i \in 1..Len(calls) : FailedAt(i) => IsRegenCall(calls[i])

C5_DegradedStillSaved ==
  event.kind = "image" /\ OnlyRegenFailed =>
    /\ Len(notes) <= 1
    /\ pc \notin {"image_error_reply", "raised"}
    /\ \A i \in 1..Len(replies) : replies[i].kind # "image_error"
    /\ pc = "done" =>
         /\ Len(notes) = 1
         /\ notes[1].Name = "title"
         /\ notes[1].Prompt = "prompt"
         /\ notes[1].Image = <<"original url">>
         /\ notes[1].lineID = event.user_id

\* the image model answered but the upload of its image failed, and the
\* handler finished
C5_Witness ==
  /\ event.kind = "image"
  /\ OnlyRegenFailed
  /\ \E i \in 1..Len(calls) : calls[i].op = "upload" /\ FailedAt(i)
  /\ pc = "done"
  /\ Len(notes) = 1

(***************************************************************************)
(* C6: when the enhancement step throws, the reply sent to the user is a   *)
(* degraded-success message that does not contain the raw exception string *)
(* of the failure.  The code violates it: the degraded reply carries       *)
(* str(gen_error)[:150], the whole exception string when it is no longer   *)
(* than 150 characters.                                                    *)
(***************************************************************************)
C6_DegradedReplyHidesException ==
  /\ pc = "done"
  /\ RegenFailed
  /\ replies[Len(replies)].kind = "image_degraded"
  => replies[Len(replies)].shown # exc.len

(***************************************************************************)
(* C7: whenever an essential step fails (webpage fetch, social scrape,     *)
(* transcription or correction, primary summarization or title generation, *)
(* image analysis) no Note is persisted for the event, the next and last   *)
(* call of the event is an error reply, and no later pipeline step runs.   *)
(***************************************************************************)
EssentialOps ==
  {"fetch", "scrape", "transcribe", "correct_cantonese_text", "summarize_webpage",
   "cantonese_summary_and_title", "summary_and_title", "image_prompt"}

C7_EssentialFailureAborts ==
  \A i \in 1..Len(calls) :
    calls[i].op \in EssentialOps /\ FailedAt(i) =>
      /\ notes = <<>>
      /\ Len(calls) <= i + 1
      /\ Len(calls) = i + 1 =>
           /\ calls[i + 1].op = "reply"
           /\ calls[i + 1].arg[1] \in ErrorKinds
           /\ calls[i + 1].ok => pc = "done" /\ Len(Delivered) = 1
      /\ Finished => Len(calls) = i + 1

\* the summarization of a fetched page failed and the error reply was sent
C7_Witness ==
  /\ pc = "done"
  /\ \E i \in 1..Len(calls) : calls[i].op = "summarize_webpage" /\ FailedAt(i)
  /\ replies[Len(replies)].kind = "url_error"
  /\ replies[Len(replies)].ok

(***************************************************************************)
(* C8: in every error reply, for every handler and every failure, the part *)
(* of the reply that carries the failure message is at most 200 characters *)
(* long.  The code violates it: the top-level handlers put str(e) whole in *)
(* the reply.                                                              *)
(***************************************************************************)
C8_ErrorPartBounded ==
  \A i \in 1..Len(replies) : replies[i].shown <= 200

(***************************************************************************)
(* C9: the platform of a detected URL is decided by its host: a URL whose  *)
(* host is not a Facebook domain (facebook.com, fb.com, fb.watch) or a     *)
(* Threads domain (threads.com, threads.net) is classified as other and    *)
(* handled by the webpage extractor, whatever its path and query contain.  *)
(* The code violates it: it looks for the domain names anywhere in the     *)
(* URL.                                                                    *)
(***************************************************************************)
RECURSIVE HostLen(_)
HostLen(s) ==
  IF s = <<>> \/ Head(s) \in {"/", "?", "#", ":"} THEN 0 ELSE 1 + HostLen(Tail(s))
HostOf(url) ==
  LET rest == SubSeq(url, SchemeLenAt(url, 1) + 1, Len(url)) IN
  Lower(SubSeq(rest, 1, HostLen(rest)))
EndsWith(s, p) == Len(s) >= Len(p) /\ SubSeq(s, Len(s) - Len(p) + 1, Len(s)) = p
OnDomain(host, d) == host = d \/ EndsWith(host, <<".">> \o d)
PlatformDomains == {FACEBOOK_COM, FB_COM, FB_WATCH, THREADS_COM, THREADS_NET}

C9_HostDecidesPlatform ==
  /\ Dispatched
  /\ loc.detected_url # None
  /\ \A d \in PlatformDomains : ~OnDomain(HostOf(loc.detected_url), d)
  => /\ loc.social_platform = "none"
     /\ pc # "fb_scrape"
     /\ pc # "threads_reply"
     /\ \A i \in 1..Len(calls) : calls[i].op # "scrape"

(***************************************************************************)
(* C10: for an authorized text whose URL is classified as Threads, the     *)
(* first reply call carries the "not yet supported" message and there is   *)
(* no scraper call, web fetch, model call or store create.                 *)
(***************************************************************************)
C10_ThreadsNotSupported ==
  /\ Dispatched
  /\ detect_url(event.text) # None
  /\ detect_social_platform(detect_url(event.text)) = "threads"
  => /\ notes = <<>>
     /\ \A i \in 1..Len(calls) : calls[i].op = "reply"
     /\ Len(calls) >= 1 => calls[1].arg = <<"threads_unsupported">>
     /\ Finished => Len(calls) >= 1
     /\ Finished /\ NoReplyFailed => Len(calls) = 1

\* a Threads URL was answered with the one "not yet supported" reply
C10_Witness ==
  /\ Dispatched
  /\ loc.social_platform = "threads"
  /\ pc = "done"
  /\ Len(replies) = 1
  /\ replies[1].kind = "threads_unsupported"
  /\ replies[1].ok

(***************************************************************************)
(* fetch_webpage_content, step by step: the declared-length check, the     *)
(* streaming read, the status check, the content-type gate, the choice of  *)
(* the encoding, and the decode and parse.  Bytes are counted, not kept.   *)
(***************************************************************************)
MaxReads == 3

FacebookUrl == HTTP \o FB_COM
WebUrl == HTTPS \o <<"x", ".", "i", "o">>

\* 5 * 1024 * 1024
SizeLimit == 5242880
\* iter_content(chunk_size=8192)
ChunkSize == 8192
\* content_bytes[:2048] and len(b"charset=")
MetaWindow == 2048
CharsetKeyLen == 8

CHARSET_EQ == <<"c", "h", "a", "r", "s", "e", "t", "=">>
TEXT_HTML == <<"t", "e", "x", "t", "/", "h", "t", "m", "l">>
TEXT_PLAIN == <<"t", "e", "x", "t", "/", "p", "l", "a", "i", "n">>
TEXT_ANY == <<"t", "e", "x", "t", "/">>
APPLICATION_PDF == <<"a", "p", "p", "l", "i", "c", "a", "t", "i", "o", "n", "/", "p", "d", "f">>
UTF_8 == <<"u", "t", "f", "-", "8">>
BIG5 == <<"b", "i", "g", "5">>
GBK == <<"g", "b", "k">>

\* values of the Content-Type header; <<>> is the missing header
ContentTypes ==
  { <<>>,
    <<"t", "e", "x", "t", "/", "h", "t", "m", "l">>,
    <<"T", "E", "X", "T", "/", "H", "T", "M", "L", ";", " ", "C", "h", "a", "r", "s", "e", "t", "=", "B", "i", "g", "5">>,
    <<"t", "e", "x", "t", "/", "h", "t", "m", "l", ";", " ", "c", "h", "a", "r", "s", "e", "t", "=", "g", "b", "k", ";", " ", "c", "h", "a", "r", "s", "e", "t", "=", " ", "b", "i", "g", "5", " ", ";", "x", "=", "1">>,
    <<"t", "e", "x", "t", "/", "h", "t", "m", "l", ";", " ", "c", "h", "a", "r", "s", "e", "t", "=">>,
    <<"t", "e", "x", "t", "/", "p", "l", "a", "i", "n">>,
    <<"t", "e", "x", "t", "/", "c", "s", "s">>,
    <<"a", "p", "p", "l", "i", "c", "a", "t", "i", "o", "n", "/", "p", "d", "f">>,
    <<"a", "p", "p", "l", "i", "c", "a", "t", "i", "o", "n", "/", "j", "s", "o", "n">>,
    <<"i", "m", "a", "g", "e", "/", "p", "n", "g">> }

\* values of the Content-Length header; <<>> is the missing header
ContentLengths == {<<>>, <<SizeLimit>>, <<SizeLimit + 1>>, <<6000000>>}

\* sizes of the chunks the stream yields, and the numbers of full chunks a
\* long body starts with
ChunkSizes == {1, 4096, ChunkSize}
FullRuns == {639, 640}

\* charset declarations in the body: offset of "charset=", 1 when a quote
\* follows it, and the bytes of the value (NONASCII is a byte above 127)
MetaDecls ==
  { <<>>,
    << [pos |-> 100, quote |-> 1, name |-> GBK] >>,
    << [pos |-> 100, quote |-> 0, name |-> BIG5], [pos |-> 300, quote |-> 1, name |-> GBK] >>,
    << [pos |-> 2040, quote |-> 0, name |-> BIG5] >>,
    << [pos |-> 2038, quote |-> 0, name |-> BIG5] >>,
    << [pos |-> 3000, quote |-> 1, name |-> GBK] >>,
    << [pos |-> 100, quote |-> 1, name |-> <<"NONASCII">>], [pos |-> 300, quote |-> 1, name |-> GBK] >> }

\* detected.encoding of the best guess, <<>> when there is none
Detections == {<<>>, UTF_8, BIG5}

\* faulty variant of DeclaredOver: a declared length of exactly 5 MB fails
DeclaredOverOrEqual(content_length) ==
  content_length # <<>> /\ content_length[1] >= SizeLimit

\* content_length and int(content_length) > 5 * 1024 * 1024
DeclaredOver(content_length) ==
  content_length # <<>> /\ content_length[1] > SizeLimit

\* faulty variant of ReadOver: the running total is allowed one more limit
ReadOverTwice(n) == n > 2 * SizeLimit

\* len(content_bytes) > 5 * 1024 * 1024
ReadOver(n) == n > SizeLimit

\* the content-type gate: "pass", "pdf" or "not_web"
TypeGate(content_type) ==
  IF ~Contains(content_type, TEXT_HTML) /\ ~Contains(content_type, TEXT_PLAIN)
  THEN IF Contains(content_type, APPLICATION_PDF) THEN "pdf"
       ELSE IF ~StartsWithAt(content_type, 1, TEXT_ANY) THEN "not_web"
       ELSE "pass"
  ELSE "pass"

\* content_type.split("charset=")[-1].split(";")[0].strip(), <<>> when the
\* header has no "charset="
HeaderCharset(content_type) ==
  LET I == {i \in 1..Len(content_type) : StartsWithAt(content_type, i, CHARSET_EQ)}
      last == CHOOSE i \in I : \A j \in I : j <= i
      rest == SubSeq(content_type, last + CharsetKeyLen, Len(content_type))
      J == {j \in 1..Len(rest) : rest[j] = ";"}
      first == CHOOSE j \in J : \A k \in J : j <= k
  IN IF I = {} THEN <<>>
     ELSE Strip(IF J = {} THEN rest ELSE SubSeq(rest, 1, first - 1))

\* the first match of the charset pattern in content_bytes[:2048], decoded as
\* ASCII with errors ignored; <<>> when nothing matches
MetaCharset(decls, n) ==
  LET window == Min(n, MetaWindow)
      Room(d) == window - (d.pos + CharsetKeyLen + d.quote)
      M == {i \in 1..Len(decls) : Room(decls[i]) >= 1}
      first == CHOOSE i \in M : \A j \in M : i <= j
      d == decls[first]
  IN IF M = {} THEN <<>>
     ELSE SelectSeq(SubSeq(d.name, 1, Min(Len(d.name), Room(d))),
                    LAMBDA c : c # "NONASCII")

\* faulty variant of ResolveEncoding: the body's declaration is looked at
\* before the header's
ResolveEncodingMetaFirst(content_type, decls, n, detected) ==
  IF MetaCharset(decls, n) # <<>> THEN MetaCharset(decls, n)
  ELSE IF HeaderCharset(content_type) # <<>> THEN HeaderCharset(content_type)
  ELSE IF detected # <<>> THEN detected
  ELSE UTF_8

\* encoding = None; header; if not encoding: meta; if not encoding: detection
\* or "utf-8"
ResolveEncoding(content_type, decls, n, detected) ==
  LET e1 == IF Contains(content_type, CHARSET_EQ)
            THEN HeaderCharset(content_type) ELSE <<>>
      e2 == IF e1 = <<>> THEN MetaCharset(decls, n) ELSE e1
  IN IF e2 = <<>> THEN (IF detected # <<>> THEN detected ELSE UTF_8) ELSE e2

\* raise inside fetch_webpage_content
FetchRaise(f, kind) ==
  /\ loc' = [loc EXCEPT !.fetch = [f EXCEPT !.error = kind]]
  /\ pc' = "fetch_raised"

FetchGoto(f, next) ==
  /\ loc' = [loc EXCEPT !.fetch = f]
  /\ pc' = next

fetch_length ==
  /\ pc = "fetch_length"
  /\ LET f == [loc.fetch EXCEPT !.done = Append(@, "length")] IN
     IF DeclaredOver(f.content_length) THEN FetchRaise(f, "oversize")
     ELSE FetchGoto(f, "fetch_read")
  /\ UNCHANGED <<event, exc, calls, replies, notes>>

\* the first k iterations of the loop over a body that starts with k full
\* chunks, none of which takes the total above the limit
fetch_read_run ==
  /\ pc = "fetch_read"
  /\ loc.fetch.reads = 0
  /\ \E k \in FullRuns :
       /\ ~ReadOver(k * ChunkSize)
       /\ FetchGoto([loc.fetch EXCEPT !.content_bytes = k * ChunkSize,
                                      !.reads = k, !.run = k], "fetch_read")
  /\ UNCHANGED <<event, exc, calls, replies, notes>>

\* one iteration of the loop
fetch_read_chunk ==
  /\ pc = "fetch_read"
  /\ loc.fetch.reads - loc.fetch.run < MaxReads
  /\ \E c \in ChunkSizes :
       LET f == [loc.fetch EXCEPT !.content_bytes = @ + c, !.reads = @ + 1] IN
       IF ReadOver(f.content_bytes) THEN FetchRaise(f, "oversize")
       ELSE FetchGoto(f, "fetch_read")
  /\ UNCHANGED <<event, exc, calls, replies, notes>>

\* the stream ends
fetch_read_end ==
  /\ pc = "fetch_read"
  /\ FetchGoto(loc.fetch, "fetch_status")
  /\ UNCHANGED <<event, exc, calls, replies, notes>>

fetch_status ==
  /\ pc = "fetch_status"
  /\ \E status_code \in {200, 403, 404} :
       LET f == [loc.fetch EXCEPT !.status_code = status_code,
                                  !.done = Append(@, "status")] IN
       IF status_code = 403 /\ f.content_bytes > 1000 THEN FetchGoto(f, "fetch_type")
       ELSE IF status_code >= 400 THEN FetchRaise(f, "http_status")
       ELSE FetchGoto(f, "fetch_type")
  /\ UNCHANGED <<event, exc, calls, replies, notes>>

fetch_type ==
  /\ pc = "fetch_type"
  /\ \E header \in ContentTypes :
       LET f == [loc.fetch EXCEPT !.content_type = Lower(header),
                                  !.done = Append(@, "type")] IN
       IF TypeGate(f.content_type) = "pass" THEN FetchGoto(f, "fetch_encoding")
       ELSE FetchRaise(f, TypeGate(f.content_type))
  /\ UNCHANGED <<event, exc, calls, replies, notes>>

FitsBody(decls, n) ==
  \A i \in 1..Len(decls) :
    decls[i].pos + CharsetKeyLen + decls[i].quote + Len(decls[i].name) <= n

fetch_encoding ==
  /\ pc = "fetch_encoding"
  /\ \E decls \in MetaDecls, detected \in Detections :
       /\ FitsBody(decls, loc.fetch.content_bytes)
       /\ FetchGoto([loc.fetch EXCEPT
                       !.meta = decls, !.detected = detected,
                       !.encoding = ResolveEncoding(loc.fetch.content_type, decls,
                                                    loc.fetch.content_bytes, detected),
                       !.done = Append(@, "encoding")],
                    "fetch_decode")
  /\ UNCHANGED <<event, exc, calls, replies, notes>>

\* content_bytes.decode(encoding) with its fallback, then the parse
fetch_decode ==
  /\ pc = "fetch_decode"
  /\ \E content \in PageTexts :
       /\ loc' = [loc EXCEPT !.content = content,
                             !.fetch = [@ EXCEPT !.first_decode = loc.fetch.encoding,
                                                 !.done = Append(@, "decode")]]
       /\ pc' = "fetch_returned"
  /\ UNCHANGED <<event, exc, calls, replies, notes>>

InitFetch ==
  \E content_length \in ContentLengths, u \in ALLOWED_LINE_USER_IDS :
    /\ pc = "fetch_length"
    /\ event = [kind |-> "text", user_id |-> u, text |-> WebUrl]
    /\ loc = [NoLoc EXCEPT !.detected_url = WebUrl, !.social_platform = "none",
                           !.fetch = [NoFetch EXCEPT !.content_length = content_length]]
    /\ exc = NoExc
    /\ calls = <<>>
    /\ replies = <<>>
    /\ notes = <<>>

NextFetch ==
  \/ fetch_length
  \/ fetch_read_run \/ fetch_read_chunk \/ fetch_read_end
  \/ fetch_status \/ fetch_type \/ fetch_encoding \/ fetch_decode

SpecFetch == InitFetch /\ [][NextFetch]_vars

(***************************************************************************)
(* Storage of long contents: the steps that summarise and store a note,    *)
(* started with a content of every length around the multiples of the      *)
(* chunk width.                                                            *)
(***************************************************************************)
MaxChunks == 2

\* a text of n characters: words of six letters separated by single spaces,
\* ending with a letter
LongText(n) == [i \in 1..n |-> IF i % 7 = 0 /\ i # n THEN " " ELSE "a"]

StoreLens ==
  {1, FieldLimit, FieldLimit + 1} \cup
  { k * ChunkWidth + d : k \in 1..MaxChunks, d \in {-1, 0, 1} }

StorePaths == {"audio_summary", "article_summary", "web_summarize", "fb_summarize"}

\* the call log of the handler when it reaches the summary step
StoreCalls(p, s) ==
  IF p = "audio_summary"
  THEN << [op |-> "download", arg |-> <<"audio">>, ok |-> TRUE],
          [op |-> "transcribe", arg |-> <<"audio">>, ok |-> TRUE],
          [op |-> "correct_cantonese_text", arg |-> s, ok |-> TRUE] >>
  ELSE IF p = "web_summarize"
  THEN << [op |-> "fetch", arg |-> WebUrl, ok |-> TRUE] >>
  ELSE IF p = "fb_summarize"
  THEN << [op |-> "scrape", arg |-> FacebookUrl, ok |-> TRUE] >>
  ELSE <<>>

\* the locals of the handler when it reaches the summary step with the long
\* text s as the transcription, the article, the page text (after a control
\* character the page starts with) or the post text
StoreLoc(p, s) ==
  IF p = "audio_summary"
  THEN [NoLoc EXCEPT !.raw_transcription = s, !.transcribed_text = s]
  ELSE IF p = "article_summary"
  THEN [NoLoc EXCEPT !.article_text = s]
  ELSE IF p = "web_summarize"
  THEN [NoLoc EXCEPT !.detected_url = WebUrl, !.social_platform = "none",
                     !.title = "page title", !.content = <<"BEL">> \o s]
  ELSE [NoLoc EXCEPT !.detected_url = FacebookUrl, !.social_platform = "facebook",
                     !.title = "author post", !.content = s]

StoreEvent(p, u, s) ==
  [kind |-> IF p = "audio_summary" THEN "audio" ELSE "text",
   user_id |-> u,
   text |-> IF p = "audio_summary" THEN <<>>
            ELSE IF p = "article_summary" THEN CmdPrefix \o s
            ELSE IF p = "web_summarize" THEN WebUrl
            ELSE FacebookUrl]

InitStore ==
  \E p \in StorePaths, n \in StoreLens, u \in ALLOWED_LINE_USER_IDS :
    /\ pc = p
    /\ event = StoreEvent(p, u, LongText(n))
    /\ loc = StoreLoc(p, LongText(n))
    /\ exc = NoExc
    /\ calls = StoreCalls(p, LongText(n))
    /\ replies = <<>>
    /\ notes = <<>>

NextStore ==
  \/ audio_summary \/ audio_save
  \/ article_summary \/ article_save
  \/ web_summarize \/ web_save
  \/ fb_summarize \/ fb_save

SpecStore == InitStore /\ [][NextStore]_vars

(***************************************************************************)
(* The summarizer's choice of prompt: the summarize step of the webpage    *)
(* and of the social path, started with contents of every small mix of     *)
(* CJK characters, other characters and whitespace, and with contents      *)
(* longer than the summarizer's cut.                                       *)
(***************************************************************************)
MaxCjk == 3
MaxOther == 10

Repeat(c, n) == [i \in 1..n |-> c]

ClassifyTexts ==
  { Repeat("CJK", c) \o Repeat(" ", w) \o Repeat("a", a) :
      c \in 0..MaxCjk, w \in 0..1, a \in 0..MaxOther }
  \cup
  { Repeat("a", MaxContentLength) \o Repeat("CJK", 5000),
    Repeat("CJK", 2000) \o Repeat("a", 8000),
    Repeat("CJK", 2001) \o Repeat("a", 8000),
    Repeat("CJK", 5000) \o Repeat("a", MaxContentLength) }

\* fetch_webpage_content returns stripped lines, possibly none; the social
\* branch raises on an empty content before it summarizes
InitClassify ==
  \E p \in {"web_summarize", "fb_summarize"}, s \in ClassifyTexts,
     u \in ALLOWED_LINE_USER_IDS :
    /\ IF p = "web_summarize" THEN Strip(s) = s ELSE s # <<>>
    /\ pc = p
    /\ event = StoreEvent(p, u, s)
    /\ loc = [StoreLoc(p, s) EXCEPT !.content = s]
    /\ exc = NoExc
    /\ calls = StoreCalls(p, s)
    /\ replies = <<>>
    /\ notes = <<>>

NextClassify == web_summarize \/ fb_summarize

SpecClassify == InitClassify /\ [][NextClassify]_vars

(***************************************************************************)
(* C11  As stated: on every path that stores a Note (audio, '/a' text,     *)
(* webpage, social) no single content text value of the page exceeds 2000  *)
(* characters; a longer content is split into the ordered body blocks.     *)
(* The audio path passes the whole corrected transcription as the Content  *)
(* property and no page body, so a transcription of 2001 characters is     *)
(* stored in one field.                                                    *)
(***************************************************************************)
C11_NoFieldOverLimit ==
  \A i \in 1..Len(notes) :
    /\ Len(notes[i].Content) <= FieldLimit
    /\ \A k \in 1..Len(notes[i].children) : Len(notes[i].children[k]) <= FieldLimit

(***************************************************************************)
(* C12  The chunk splitter with window 1900: the chunks of a stored body,  *)
(* concatenated in order, are the text that was split; every chunk but the *)
(* last has exactly 1900 characters and the last has 1 to 1900; the empty  *)
(* text yields no chunk.                                                   *)
(***************************************************************************)
\* the text the save step of the note's path hands to the splitter: the
\* article, the post text, or the page text without its control character
BodyText ==
  IF pc = "article_reply" THEN loc.article_text
  ELSE IF pc = "web_reply" THEN Tail(loc.content)
  ELSE IF pc = "fb_reply" THEN loc.content
  ELSE <<>>

C12_ChunksPartition ==
  /\ Chunks(<<>>) = <<>>
  /\ \A i \in 1..Len(notes) :
       LET ch == notes[i].children IN
       /\ Flatten(ch) = BodyText
       /\ \A k \in 1..Len(ch) :
            IF k < Len(ch) THEN Len(ch[k]) = ChunkWidth
            ELSE Len(ch[k]) \in 1..ChunkWidth

\* a body of two full chunks and a last chunk of one character was stored
C12_Witness ==
  /\ Len(notes) = 1
  /\ Len(notes[1].children) = 3
  /\ Len(notes[1].children[1]) = ChunkWidth
  /\ Len(notes[1].children[3]) = 1

(***************************************************************************)
(* C13  As stated: the content of every extraction result, of the webpage  *)
(* extractor and of the social extractor, has no NUL and no control        *)
(* character other than newline, tab and carriage return.  The cleaning    *)
(* function is applied only when a webpage note is stored: the webpage     *)
(* extractor returns the parsed text as it is, and the social path never   *)
(* calls it.                                                               *)
(***************************************************************************)
Extracted ==
  pc \in {"fb_summarize", "fb_save", "fb_reply", "web_summarize", "web_save", "web_reply"}

C13_ExtractedContentClean ==
  Extracted => \A i \in 1..Len(loc.content) : loc.content[i] \notin ControlChars

(***************************************************************************)
(* C14  A response whose declared Content-Length is greater than           *)
(* 5*1024*1024 makes the fetch fail with the oversize error before any     *)
(* byte of the body is read and before any status, content-type or text    *)
(* processing; a declared length of exactly 5*1024*1024 does not fail on   *)
(* this check.                                                             *)
(***************************************************************************)
DeclaredLength == loc.fetch.content_length

C14_DeclaredOversizeFailsFirst ==
  LET f == loc.fetch IN
  /\ pc # "fetch_length" /\ DeclaredLength # <<>> /\ DeclaredLength[1] > 5 * 1024 * 1024
     => /\ pc = "fetch_raised"
        /\ f.error = "oversize"
        /\ f.reads = 0 /\ f.content_bytes = 0
        /\ f.done = <<"length">>
        /\ f.status_code = 0 /\ f.content_type = <<>> /\ f.first_decode = <<>>
  /\ pc # "fetch_length" /\ DeclaredLength = << 5 * 1024 * 1024 >>
     => ~(f.error = "oversize" /\ f.reads = 0)

\* a response that declared 6000000 bytes failed with the oversize error
C14_Witness ==
  /\ pc = "fetch_raised"
  /\ DeclaredLength = <<6000000>>
  /\ loc.fetch.error = "oversize"

(***************************************************************************)
(* C15  During the streaming read, for chunks of at most 8192 bytes, the   *)
(* bytes buffered never exceed 5 MB plus one chunk, and the fetch has      *)
(* aborted with the oversize error as soon as the running total is above   *)
(* 5 MB: no chunk is read after that, and no read aborts at or below it.   *)
(***************************************************************************)
C15_StreamingBounded ==
  LET f == loc.fetch IN
  /\ f.content_bytes <= 5 * 1024 * 1024 + 8192
  /\ f.content_bytes > 5 * 1024 * 1024 => pc = "fetch_raised" /\ f.error = "oversize"
  /\ f.error = "oversize" /\ f.reads >= 1 => f.content_bytes > 5 * 1024 * 1024

\* the read aborted with 5 MB plus one whole chunk buffered
C15_Witness ==
  /\ pc = "fetch_raised"
  /\ loc.fetch.error = "oversize"
  /\ loc.fetch.content_bytes = 5 * 1024 * 1024 + 8192

(***************************************************************************)
(* C16  As stated: a response is accepted only when its content type is    *)
(* text/html or text/plain; application/pdf fails with the PDF error, and  *)
(* every other type (binary, another text subtype, none) fails and is      *)
(* never decoded.  The gate lets every type that starts with text/ pass.   *)
(***************************************************************************)
\* the media type of a content-type value: the part before the parameters
MediaType(content_type) ==
  LET J == {j \in 1..Len(content_type) : content_type[j] = ";"}
      first == CHOOSE j \in J : \A k \in J : j <= k
  IN Strip(IF J = {} THEN content_type ELSE SubSeq(content_type, 1, first - 1))

TypeChecked == \E i \in 1..Len(loc.fetch.done) : loc.fetch.done[i] = "type"

C16_OnlyHtmlOrPlain ==
  LET f == loc.fetch IN
  TypeChecked =>
    /\ MediaType(f.content_type) = APPLICATION_PDF
       => pc = "fetch_raised" /\ f.error = "pdf"
    /\ MediaType(f.content_type) \notin {TEXT_HTML, TEXT_PLAIN}
       => pc = "fetch_raised" /\ f.error \in {"pdf", "not_web"} /\ f.first_decode = <<>>

(***************************************************************************)
(* C17  The encoding of the first decode attempt is chosen by strict       *)
(* priority: the charset of the content-type header when it yields a       *)
(* value; otherwise the first charset declaration in the first 2048 bytes  *)
(* of the body; otherwise the detector's best guess; otherwise UTF-8.      *)
(***************************************************************************)
EncodingChosen == \E i \in 1..Len(loc.fetch.done) : loc.fetch.done[i] = "encoding"

C17_EncodingPriority ==
  LET f == loc.fetch
      header == HeaderCharset(f.content_type)
      meta == MetaCharset(f.meta, f.content_bytes)
  IN EncodingChosen =>
       /\ header # <<>> => f.encoding = header
       /\ header = <<>> /\ meta # <<>> => f.encoding = meta
       /\ header = <<>> /\ meta = <<>> /\ f.detected # <<>> => f.encoding = f.detected
       /\ header = <<>> /\ meta = <<>> /\ f.detected = <<>> => f.encoding = UTF_8
       /\ pc = "fetch_returned" => f.first_decode = f.encoding

\* the header declared big5, the body declared gbk and the detector guessed
\* utf-8: the first decode used big5
C17_Witness ==
  /\ pc = "fetch_returned"
  /\ HeaderCharset(loc.fetch.content_type) = BIG5
  /\ MetaCharset(loc.fetch.meta, loc.fetch.content_bytes) = GBK
  /\ loc.fetch.detected = UTF_8
  /\ loc.fetch.first_decode = BIG5

(***************************************************************************)
(* C18  Every structured-output model call (formal summary and title,      *)
(* dialect summary and title, image prompt and title) gives the handler    *)
(* the parse of the reply after the leading fence line and the trailing    *)
(* fence are stripped: a fenced {"title": T, "summary": S} yields T and S. *)
(* A reply that is not the expected structure after stripping makes the    *)
(* step fail: no value is defaulted, no Note is stored, and the only reply *)
(* is the error reply.                                                     *)
(***************************************************************************)
Replied == loc.reply # NoReply
ExpectedKeys ==
  IF event.kind = "image" THEN {"title", "prompt"} ELSE {"title", "summary"}
FencedExample(obj) == <<"FENCE", "json", "\n", obj, "\n", "FENCE">>

C18_StructuredParse ==
  Replied =>
    /\ loc.reply = FencedExample("OBJ_TS") /\ event.kind # "image"
       => loc.title = "title" /\ loc.summary = "summary"
    /\ loc.reply = FencedExample("OBJ_PT") /\ event.kind = "image"
       => loc.title = "title" /\ loc.prompt = "prompt"
    /\ IF ExpectedKeys \subseteq JsonKeys(StructuredParse(loc.reply))
       THEN /\ loc.title = "title"
            /\ event.kind # "image" => loc.summary = "summary"
            /\ event.kind = "image" => loc.prompt = "prompt"
            /\ \A i \in 1..Len(notes) :
                 /\ notes[i].Name = "title"
                 /\ event.kind # "image" => notes[i].Summary = "summary"
                 /\ event.kind = "image" => notes[i].Prompt = "prompt"
       ELSE /\ loc.title = "" /\ loc.summary = "" /\ loc.prompt = ""
            /\ notes = <<>>
            /\ pc \in {"text_error_reply", "audio_error_reply", "image_error_reply",
                       "done", "raised"}
            /\ \A i \in 1..Len(replies) : replies[i].kind \in ErrorKinds
            /\ Finished => Len(replies) = 1

\* the dialect summary call got the fenced object, and the Note stored has
\* its title and summary
C18_Witness ==
  /\ pc = "done"
  /\ event.kind = "text"
  /\ loc.reply = FencedExample("OBJ_TS")
  /\ Len(notes) = 1
  /\ notes[1].Name = "title" /\ notes[1].Summary = "summary"

(***************************************************************************)
(* C19  The classifier is true exactly when the characters of              *)
(* U+4E00..U+9FFF are strictly more than 20% of the characters that are    *)
(* not whitespace: 3 of 10 is true, 1 of 10, exactly 20% and no such       *)
(* character are false.  The summarizer uses the summarize prompt iff the  *)
(* classifier is true on the content cut to 10000 characters and "...",    *)
(* and the translate-then-summarize prompt otherwise.                      *)
(***************************************************************************)
CutContent ==
  IF Len(loc.content) > 10000
  THEN [i \in 1..10003 |-> IF i <= 10000 THEN loc.content[i] ELSE "."]
  ELSE loc.content
CjkCount == Cardinality({i \in 1..Len(CutContent) : CutContent[i] = "CJK"})
NonSpaceCount ==
  Cardinality({i \in 1..Len(CutContent) : CutContent[i] \notin {" ", "\t", "\n", "\r"}})

C19_ClassifierThreshold ==
  /\ is_chinese_text(Repeat("CJK", 3) \o Repeat("a", 7))
  /\ ~is_chinese_text(Repeat("CJK", 1) \o Repeat("a", 9))
  /\ ~is_chinese_text(Repeat("CJK", 2) \o Repeat("a", 8))
  /\ ~is_chinese_text(<<>>) /\ ~is_chinese_text(<<" ", "\n">>)
  /\ loc.summary_prompt # ""
     => /\ loc.summary_prompt \in {"summarize", "translate"}
        /\ loc.summary_prompt = "summarize"
           <=> NonSpaceCount > 0 /\ 100 * CjkCount > 20 * NonSpaceCount

\* a content of 10000 other characters followed by 5000 CJK characters, a
\* third of the whole, was summarized with the translate prompt: the cut
\* content has no CJK character
C19_Witness ==
  /\ Len(loc.content) = 15000
  /\ loc.content[1] = "a"
  /\ loc.summary_prompt = "translate"
  /\ pc \in {"web_save", "fb_save"}

(***************************************************************************)
(* C20  In the audio path the calls occur in the order download,           *)
(* transcription, correction, summary and title, store create, reply, one  *)
(* of each on success; the correction call receives the output of the      *)
(* transcription call, and the summary input and the Note's content are    *)
(* the output of the correction call, never the raw transcription.         *)
(***************************************************************************)
AudioOrder ==
  <<"download", "transcribe", "correct_cantonese_text", "summary_and_title",
    "create", "reply">>

AudioHandled ==
  /\ event.kind = "audio"
  /\ event.user_id \in ALLOWED_LINE_USER_IDS

C20_AudioPipeline ==
  AudioHandled =>
    /\ \A i \in 1..Len(calls) :
         \/ i <= Len(AudioOrder) /\ calls[i].op = AudioOrder[i]
                                 /\ \A j \in 1..(i - 1) : calls[j].ok
         \/ calls[i].op = "reply" /\ calls[i].arg = <<"audio_error">>
    /\ pc = "done" /\ Len(replies) >= 1 /\ replies[Len(replies)].kind # "audio_error"
       => /\ Len(calls) = Len(AudioOrder)
          /\ \A i \in 1..Len(calls) : calls[i].ok
    /\ \A i \in 1..Len(calls) :
         /\ calls[i].op = "correct_cantonese_text"
            => /\ calls[i].arg = loc.raw_transcription
               /\ \E t \in Transcriptions : loc.raw_transcription = Strip(t)
         /\ calls[i].op = "summary_and_title"
            => /\ calls[i].arg = loc.transcribed_text
               /\ \E t \in Corrections : loc.transcribed_text = Strip(t)
               /\ calls[i].arg # loc.raw_transcription
    /\ \A i \in 1..Len(notes) :
         /\ notes[i].Content = loc.transcribed_text
         /\ notes[i].Content # loc.raw_transcription
         /\ \E t \in Corrections : notes[i].Content = Strip(t)

\* an audio event was transcribed, corrected, summarized, stored and
\* answered; the Note holds the corrected text
C20_Witness ==
  /\ AudioHandled
  /\ pc = "done"
  /\ Len(calls) = 6 /\ calls[6].ok
  /\ loc.raw_transcription = <<"raw", "two">>
  /\ Len(notes) = 1
  /\ notes[1].Content = <<"corrected", "two">>

(***************************************************************************)
(* C21  On every path a reply that announces the item as saved is sent     *)
(* only after a store create of the event has succeeded: no such reply     *)
(* call is made while no Note exists, and no store create is made after a  *)
(* reply of the event has been delivered.                                  *)
(***************************************************************************)
SavedKinds ==
  {"saved_facebook", "saved_webpage", "saved_text", "saved_audio",
   "image_full", "image_degraded"}

C21_SavedReplyAfterCreate ==
  /\ \A j \in 1..Len(calls) :
       calls[j].op = "reply" /\ calls[j].arg[1] \in SavedKinds
       => \E i \in 1..(j - 1) : calls[i].op = "create" /\ calls[i].ok
  /\ (\E j \in 1..Len(replies) : replies[j].kind \in SavedKinds) => notes # <<>>
  /\ \A i \in 1..Len(calls) :
       calls[i].op = "reply" /\ calls[i].ok
       => \A j \in (i + 1)..Len(calls) : calls[j].op # "create"

\* a webpage was stored and then announced as saved
C21_Witness ==
  /\ pc = "done"
  /\ Len(calls) = 4
  /\ calls[3].op = "create" /\ calls[3].ok
  /\ calls[4].op = "reply" /\ calls[4].arg = <<"saved_webpage">> /\ calls[4].ok
  /\ Len(notes) = 1

(***************************************************************************)
(* C22  In the image path the degraded reply is sent only if the image     *)
(* generation itself failed: once generate_new_image has returned its      *)
(* image, every Note of the event carries the reference of the generated   *)
(* image and no degraded reply is sent.                                    *)
(***************************************************************************)
GenerationSucceeded ==
  /\ event.kind = "image"
  /\ loc.generated_image_url # ""
  /\ ~RegenFailed

C22_DegradedOnlyIfGenerationFailed ==
  GenerationSucceeded =>
    /\ \A i \in 1..Len(notes) : \E k \in 1..Len(notes[i].Image) :
                                      notes[i].Image[k] = loc.generated_image_url
    /\ \A j \in 1..Len(replies) : replies[j].kind # "image_degraded"

(***************************************************************************)
(* C23  Every Note created in the store, by any handler and on any path,   *)
(* the degraded image path included, carries a lineID equal to the sender  *)
(* id of the event that produced it, and that sender is on the allow-list. *)
(***************************************************************************)
C23_NoteCarriesSender ==
  \A i \in 1..Len(notes) :
    /\ notes[i].lineID = event.user_id
    /\ notes[i].lineID \in ALLOWED_LINE_USER_IDS

\* a Note of the degraded image path: the image generation failed and the Note
\* without a generated image carries the sender
C23_Witness ==
  /\ event.kind = "image"
  /\ RegenFailed
  /\ Len(notes) = 1
  /\ Len(notes[1].Image) = 1
  /\ notes[1].lineID = event.user_id
  /\ event.user_id \in ALLOWED_LINE_USER_IDS

(***************************************************************************)
(* C24  A Facebook post for which the scraper returns no body text (no     *)
(* 'text' and no 'message') is never summarized and never persisted,       *)
(* whether or not the post carries a link: the event ends with the error   *)
(* reply.                                                                  *)
(***************************************************************************)
\* the scraper returned a post whose content is built from no body text: it is
\* empty, or it is the link line alone
NoBodyText ==
  /\ \E i \in 1..Len(calls) : calls[i].op = "scrape" /\ calls[i].ok
  /\ loc.content \in {<<>>, <<"post link">>}

C24_NoTextPostNotStored ==
  NoBodyText =>
    /\ \A i \in 1..Len(calls) :
         calls[i].op \notin {"summarize_webpage", "create"}
    /\ notes = <<>>
    /\ \A j \in 1..Len(replies) : replies[j].kind = "url_error"

====
